---- MODULE Spec2Model ----
(***************************************************************************)
(* Secret rotation Lambda of InnerWorldApp                                 *)
(* (src/infrastructure/modules/secrets/rotate_secrets.py).                 *)
(*                                                                         *)
(* The state is the Secrets Manager store the module-level client talks    *)
(* to, plus a record of the last handler invocation.  One action per       *)
(* rotation step the handler routes to, one for an unknown step.           *)
(* CycleSpec drives the handler the way the rotation scheduler does, and   *)
(* TriggerSpec runs the Cognito triggers of                                *)
(* src/infrastructure/modules/cognito/cognito_triggers.                    *)
(***************************************************************************)
EXTENDS Integers, Sequences, FiniteSets, TLC

VARIABLES
    store,   \* SecretId -> (VersionId -> [SecretString, stages])
    pre,     \* the store as it was when the last invocation started
    last,    \* the last invocation: event, response, store calls made
    orch,    \* the rotation scheduler driving one cycle: secret, step, tries
    trig     \* the last identity trigger invocation: event, result

vars == <<store, pre, last, orch, trig>>

----------------------------------------------------------------------------
(* Bounds and program constants *)

\* Versions one secret can hold (version ids are store-assigned tokens).
MaxVersions == 4

\* len(secret_data['password']) < 8
MinPasswordLen == 8
\* len(secret_data['key']) < 16
MinKeyLen == 16
\* range(32)
PasswordLen == 32

----------------------------------------------------------------------------
(* Python values *)

\* Python's None (event.get of a missing key, the [None] default).
None == "None"

NoExc == [type |-> "None", msg |-> <<>>]

Exc(type, msg) == [type |-> type, msg |-> msg]

\* d.get(k, default)
DictGet(d, k, default) == IF k \in DOMAIN d THEN d[k] ELSE default

\* d[k] = v
DictSet(d, k, v) == [x \in (DOMAIN d) \cup {k} |-> IF x = k THEN v ELSE d[x]]

\* `not x` for the strings an event can carry
Falsy(x) == x = None \/ x = ""

\* json.dumps of a dict of strings: the JSON object text, as its set of
\* "key": "value" members.
json_dumps(d) == {<<k, d[k]>> : k \in DOMAIN d}

\* json.loads of such a text: the dict.
json_loads(s) == [k \in {p[1] : p \in s} |-> (CHOOSE p \in s : p[1] = k)[2]]

\* Names bound in the module's global scope (imports and definitions).
ModuleGlobals_datetime ==
    {"json", "boto3", "os", "logging", "Dict", "Any", "logger",
     "secrets_client", "handler", "create_secret", "set_secret",
     "test_secret", "finish_secret", "datetime"}

ModuleGlobals ==
    {"json", "boto3", "os", "logging", "Dict", "Any", "logger",
     "secrets_client", "handler", "create_secret", "set_secret",
     "test_secret", "finish_secret"}

----------------------------------------------------------------------------
(* The Secrets Manager client, as the module calls it *)

StageOrder == <<"AWSCURRENT", "AWSPENDING", "AWSPREVIOUS">>

Stages == {StageOrder[i] : i \in 1..Len(StageOrder)}

VersionNames == <<"v1", "v2", "v3", "v4", "v5", "v6">>

VersionIds == {VersionNames[i] : i \in 1..MaxVersions}

\* Versions of a secret that carry a staging label.
Labelled(secret, stage) == {v \in DOMAIN secret : stage \in secret[v].stages}

\* The first unused version id (the ClientRequestToken the client generates).
FreshToken(secret) ==
    VersionNames[CHOOSE i \in 1..MaxVersions :
        /\ VersionNames[i] \notin DOMAIN secret
        /\ \A j \in 1..(i - 1) : VersionNames[j] \in DOMAIN secret]

\* A staging label goes to version `to`: it leaves whichever version held it,
\* and when AWSCURRENT moves, AWSPREVIOUS goes to the version it left.
MoveStage(secret, stage, to) ==
    LET from == Labelled(secret, stage) \ {to}
        moved == [v \in DOMAIN secret |->
                    [secret[v] EXCEPT !.stages =
                        IF v = to THEN @ \cup {stage} ELSE @ \ {stage}]]
    IN IF stage = "AWSCURRENT" /\ from # {}
       THEN [v \in DOMAIN moved |->
                [moved[v] EXCEPT !.stages =
                    IF v \in from THEN @ \cup {"AWSPREVIOUS"}
                    ELSE @ \ {"AWSPREVIOUS"}]]
       ELSE moved

\* Parameters the service model types as strings.
StringParams ==
    {"SecretId", "VersionId", "VersionStage", "MoveToVersionId",
     "RemoveFromVersionId", "ClientRequestToken"}

\* Parameter validation of the client, before anything is sent.
ParamsValid(kwargs, allowed, required) ==
    /\ DOMAIN kwargs \subseteq allowed
    /\ required \subseteq DOMAIN kwargs
    /\ \A k \in (DOMAIN kwargs) \cap StringParams : kwargs[k] # None

ParamValidationError == Exc("ParamValidationError", <<"Parameter validation failed">>)

ResourceNotFound == Exc("ResourceNotFoundException", <<"Secrets Manager can't find the specified secret">>)

InvalidParameter == Exc("InvalidParameterException", <<"staging label is attached to a different version">>)

\* secrets_client.get_secret_value(SecretId=..., [VersionStage=...])
get_secret_value(st, kwargs) ==
    LET stage == DictGet(kwargs, "VersionStage", "AWSCURRENT")
        none == [exc |-> NoExc, SecretString |-> {}]
    IN IF ~ParamsValid(kwargs, {"SecretId", "VersionId", "VersionStage"}, {"SecretId"})
       THEN [none EXCEPT !.exc = ParamValidationError]
       ELSE IF kwargs.SecretId \notin DOMAIN st
       THEN [none EXCEPT !.exc = ResourceNotFound]
       ELSE IF Labelled(st[kwargs.SecretId], stage) = {}
       THEN [none EXCEPT !.exc = ResourceNotFound]
       ELSE LET v == CHOOSE v \in Labelled(st[kwargs.SecretId], stage) : TRUE
            IN [none EXCEPT !.SecretString = st[kwargs.SecretId][v].SecretString]

\* secrets_client.put_secret_value(SecretId=..., SecretString=..., ...)
put_secret_value(st, kwargs) ==
    LET none == [exc |-> NoExc, store |-> st]
    IN IF ~ParamsValid(kwargs,
              {"SecretId", "ClientRequestToken", "SecretBinary", "SecretString",
               "VersionStages", "RotationToken"}, {"SecretId"})
       THEN [none EXCEPT !.exc = ParamValidationError]
       ELSE IF kwargs.SecretId \notin DOMAIN st
       THEN [none EXCEPT !.exc = ResourceNotFound]
       ELSE LET secret == st[kwargs.SecretId]
                token == FreshToken(secret)
                added == [v \in (DOMAIN secret) \cup {token} |->
                            IF v = token
                            THEN [SecretString |-> kwargs.SecretString, stages |-> {}]
                            ELSE secret[v]]
                labels == DictGet(kwargs, "VersionStages", <<"AWSCURRENT">>)
                staged == IF Len(labels) = 1
                          THEN MoveStage(added, labels[1], token)
                          ELSE MoveStage(MoveStage(added, labels[1], token), labels[2], token)
            IN [none EXCEPT !.store = [st EXCEPT ![kwargs.SecretId] = staged]]

\* secrets_client.describe_secret(SecretId=...): the response dict.
describe_secret(st, kwargs) ==
    LET none == [exc |-> NoExc, response |-> [Name |-> <<>>]]
    IN IF ~ParamsValid(kwargs, {"SecretId"}, {"SecretId"})
       THEN [none EXCEPT !.exc = ParamValidationError]
       ELSE IF kwargs.SecretId \notin DOMAIN st
       THEN [none EXCEPT !.exc = ResourceNotFound]
       ELSE LET secret == st[kwargs.SecretId]
                staged == {v \in DOMAIN secret : secret[v].stages # {}}
                listed == [v \in staged |->
                            SelectSeq(StageOrder, LAMBDA s : s \in secret[v].stages)]
            IN IF staged = {}
               THEN none
               ELSE [none EXCEPT !.response = [Name |-> <<>>, VersionIdsToStages |-> listed]]

\* secrets_client.update_secret_version_stage(SecretId=..., VersionStage=...,
\*                                            MoveToVersionId=...)
update_secret_version_stage(st, kwargs) ==
    LET none == [exc |-> NoExc, store |-> st]
    IN IF ~ParamsValid(kwargs,
              {"SecretId", "VersionStage", "RemoveFromVersionId", "MoveToVersionId"},
              {"SecretId", "VersionStage"})
       THEN [none EXCEPT !.exc = ParamValidationError]
       ELSE IF kwargs.SecretId \notin DOMAIN st
       THEN [none EXCEPT !.exc = ResourceNotFound]
       ELSE LET secret == st[kwargs.SecretId]
                holders == Labelled(secret, kwargs.VersionStage)
                named == IF "RemoveFromVersionId" \in DOMAIN kwargs
                         THEN {kwargs.RemoveFromVersionId} ELSE {}
            IN IF "MoveToVersionId" \notin DOMAIN kwargs
               THEN IF named = {} \/ named # holders \/ kwargs.VersionStage = "AWSCURRENT"
                    THEN [none EXCEPT !.exc = InvalidParameter]
                    ELSE [none EXCEPT !.store = [st EXCEPT ![kwargs.SecretId] =
                            [v \in DOMAIN secret |->
                                [secret[v] EXCEPT !.stages = @ \ {kwargs.VersionStage}]]]]
               ELSE IF kwargs.MoveToVersionId \notin DOMAIN secret
               THEN [none EXCEPT !.exc = ResourceNotFound]
               ELSE IF holders \ {kwargs.MoveToVersionId} # named
               THEN [none EXCEPT !.exc = InvalidParameter]
               ELSE [none EXCEPT !.store = [st EXCEPT ![kwargs.SecretId] =
                        MoveStage(secret, kwargs.VersionStage, kwargs.MoveToVersionId)]]

----------------------------------------------------------------------------
(* The rotation steps *)

\* What a step function leaves behind: the exception it raised (NoExc when
\* it returned), the store, the client calls it made, the value it generated.
Outcome(exc, st, calls, generated) ==
    [exc |-> exc, store |-> st, calls |-> calls, generated |-> generated]

\* A store call that fails in transit (network, throttling).
Transient == Exc("EndpointConnectionError", <<"Could not connect to the endpoint URL">>)

NameDefined(name) == name \in ModuleGlobals

\* create_secret's tail with datetime bound and the new version staged
\* AWSCURRENT instead of AWSPENDING.
create_secret_put_current(st, secret_arn, fault, current_secret, generated, now) ==
    LET stamped == DictSet(current_secret, "created_at", now)
        kwargs == [SecretId |-> secret_arn,
                   SecretString |-> json_dumps(stamped),
                   VersionStages |-> <<"AWSCURRENT">>]
        put == put_secret_value(st, kwargs)
    IN IF fault = 2
       THEN Outcome(Transient, st, <<"get_secret_value", "put_secret_value">>, generated)
       ELSE Outcome(put.exc, put.store,
                    <<"get_secret_value", "put_secret_value">>, generated)

\* create_secret's tail with datetime bound and the stamped value written
\* over the current version instead of into a new one.
create_secret_put_inplace(st, secret_arn, fault, current_secret, generated, now) ==
    LET stamped == DictSet(current_secret, "created_at", now)
        secret == st[secret_arn]
        written == [v \in DOMAIN secret |->
                      IF "AWSCURRENT" \in secret[v].stages
                      THEN [secret[v] EXCEPT !.SecretString = json_dumps(stamped)]
                      ELSE secret[v]]
    IN Outcome(NoExc, [st EXCEPT ![secret_arn] = written],
               <<"get_secret_value", "put_secret_value">>, generated)

\* create_secret, from the timestamp on (lines 106-116).
create_secret_put(st, secret_arn, fault, current_secret, generated, now) ==
    IF ~NameDefined("datetime")
    THEN Outcome(Exc("NameError", <<"name 'datetime' is not defined">>),
                 st, <<"get_secret_value">>, generated)
    ELSE LET stamped == DictSet(current_secret, "created_at", now)
             kwargs == [SecretId |-> secret_arn,
                        SecretString |-> json_dumps(stamped),
                        VersionStage |-> "AWSPENDING"]
             put == put_secret_value(st, kwargs)
         IN IF put.exc = ParamValidationError
            THEN Outcome(put.exc, st, <<"get_secret_value">>, generated)
            ELSE IF fault = 2
            THEN Outcome(Transient, st, <<"get_secret_value", "put_secret_value">>, generated)
            ELSE Outcome(put.exc, put.store,
                         <<"get_secret_value", "put_secret_value">>, generated)

\* create_secret with the password branch tested before the api_key branch.
create_secret_password_first(st, secret_arn, fault, new_password, new_key, now) ==
    LET current == get_secret_value(st, [SecretId |-> secret_arn])
        calls == <<"get_secret_value">>
    IN IF fault = 1 THEN Outcome(Transient, st, calls, None)
       ELSE IF current.exc # NoExc THEN Outcome(current.exc, st, calls, None)
       ELSE LET current_secret == json_loads(current.SecretString)
            IN IF "password" \in DOMAIN current_secret
               THEN create_secret_put(st, secret_arn, fault,
                        DictSet(current_secret, "password", new_password),
                        new_password, now)
               ELSE IF "key" \in DOMAIN current_secret
               THEN create_secret_put(st, secret_arn, fault,
                        DictSet(current_secret, "key", new_key),
                        new_key, now)
               ELSE Outcome(NoExc, st, calls, None)

create_secret(st, secret_arn, fault, new_password, new_key, now) ==
    LET current == get_secret_value(st, [SecretId |-> secret_arn])
        calls == <<"get_secret_value">>
    IN IF fault = 1 THEN Outcome(Transient, st, calls, None)
       ELSE IF current.exc # NoExc THEN Outcome(current.exc, st, calls, None)
       ELSE LET current_secret == json_loads(current.SecretString)
            IN IF "api_key" \in DOMAIN current_secret
               THEN Outcome(NoExc, st, calls, None)
               ELSE IF "password" \in DOMAIN current_secret
               THEN create_secret_put(st, secret_arn, fault,
                        DictSet(current_secret, "password", new_password),
                        new_password, now)
               ELSE IF "key" \in DOMAIN current_secret
               THEN create_secret_put(st, secret_arn, fault,
                        DictSet(current_secret, "key", new_key),
                        new_key, now)
               ELSE Outcome(NoExc, st, calls, None)

set_secret(st, secret_arn) == Outcome(NoExc, st, <<>>, None)

\* test_secret that drops the AWSPENDING label of a value it rejects.
test_secret_discard(st, secret_arn, fault) ==
    LET pending == get_secret_value(st, [SecretId |-> secret_arn,
                                         VersionStage |-> "AWSPENDING"])
        calls == <<"get_secret_value">>
        dropped == [st EXCEPT ![secret_arn] =
                      [v \in DOMAIN st[secret_arn] |->
                          [st[secret_arn][v] EXCEPT !.stages = @ \ {"AWSPENDING"}]]]
    IN IF fault = 1 THEN Outcome(Transient, st, calls, None)
       ELSE IF pending.exc # NoExc THEN Outcome(pending.exc, st, calls, None)
       ELSE LET secret_data == json_loads(pending.SecretString)
            IN IF "password" \in DOMAIN secret_data
               THEN IF Len(secret_data["password"]) < MinPasswordLen
                    THEN Outcome(Exc("ValueError", <<"Password too short">>), dropped, calls, None)
                    ELSE Outcome(NoExc, st, calls, None)
               ELSE IF "key" \in DOMAIN secret_data
               THEN IF Len(secret_data["key"]) < MinKeyLen
                    THEN Outcome(Exc("ValueError", <<"Key too short">>), dropped, calls, None)
                    ELSE Outcome(NoExc, st, calls, None)
               ELSE Outcome(NoExc, st, calls, None)

\* test_secret that reads the pending value of one fixed secret, whatever
\* secret it was invoked for.
test_secret_shared(st, secret_arn, fault) ==
    LET pending == get_secret_value(st, [SecretId |-> "B",
                                         VersionStage |-> "AWSPENDING"])
        calls == <<"get_secret_value">>
    IN IF fault = 1 THEN Outcome(Transient, st, calls, None)
       ELSE IF pending.exc # NoExc THEN Outcome(pending.exc, st, calls, None)
       ELSE LET secret_data == json_loads(pending.SecretString)
            IN IF "password" \in DOMAIN secret_data
               THEN IF Len(secret_data["password"]) < MinPasswordLen
                    THEN Outcome(Exc("ValueError", <<"Password too short">>), st, calls, None)
                    ELSE Outcome(NoExc, st, calls, None)
               ELSE IF "key" \in DOMAIN secret_data
               THEN IF Len(secret_data["key"]) < MinKeyLen
                    THEN Outcome(Exc("ValueError", <<"Key too short">>), st, calls, None)
                    ELSE Outcome(NoExc, st, calls, None)
               ELSE Outcome(NoExc, st, calls, None)

test_secret(st, secret_arn, fault) ==
    LET pending == get_secret_value(st, [SecretId |-> secret_arn,
                                         VersionStage |-> "AWSPENDING"])
        calls == <<"get_secret_value">>
    IN IF fault = 1 THEN Outcome(Transient, st, calls, None)
       ELSE IF pending.exc # NoExc THEN Outcome(pending.exc, st, calls, None)
       ELSE LET secret_data == json_loads(pending.SecretString)
            IN IF "password" \in DOMAIN secret_data
               THEN IF Len(secret_data["password"]) < MinPasswordLen
                    THEN Outcome(Exc("ValueError", <<"Password too short">>), st, calls, None)
                    ELSE Outcome(NoExc, st, calls, None)
               ELSE IF "key" \in DOMAIN secret_data
               THEN IF Len(secret_data["key"]) < MinKeyLen
                    THEN Outcome(Exc("ValueError", <<"Key too short">>), st, calls, None)
                    ELSE Outcome(NoExc, st, calls, None)
               ELSE Outcome(NoExc, st, calls, None)

\* describe_secret(...)['VersionIdsToStages'].get('AWSPENDING', [None])[0]
MoveToVersionId(response) ==
    DictGet(response["VersionIdsToStages"], "AWSPENDING", <<None>>)[1]

\* finish_secret that finds the pending version by its label and attaches
\* AWSCURRENT to it without taking the label off the version that holds it.
finish_secret_attach(st, secret_arn, fault) ==
    LET described == describe_secret(st, [SecretId |-> secret_arn])
        calls == <<"describe_secret">>
    IN IF fault = 1 THEN Outcome(Transient, st, calls, None)
       ELSE IF described.exc # NoExc THEN Outcome(described.exc, st, calls, None)
       ELSE IF Labelled(st[secret_arn], "AWSPENDING") = {}
       THEN Outcome(ParamValidationError, st, calls, None)
       ELSE Outcome(NoExc,
                [st EXCEPT ![secret_arn] =
                    [v \in DOMAIN st[secret_arn] |->
                        [st[secret_arn][v] EXCEPT !.stages =
                            IF "AWSPENDING" \in @ THEN @ \cup {"AWSCURRENT"} ELSE @]]],
                <<"describe_secret", "update_secret_version_stage">>, None)

\* finish_secret that finds the pending version by its label and names the
\* version AWSCURRENT is taken from.
finish_secret_promote(st, secret_arn, fault) ==
    LET described == describe_secret(st, [SecretId |-> secret_arn])
        calls == <<"describe_secret">>
    IN IF fault = 1 THEN Outcome(Transient, st, calls, None)
       ELSE IF described.exc # NoExc THEN Outcome(described.exc, st, calls, None)
       ELSE IF Labelled(st[secret_arn], "AWSPENDING") = {}
                 \/ Labelled(st[secret_arn], "AWSCURRENT") = {}
       THEN Outcome(ParamValidationError, st, calls, None)
       ELSE LET kwargs == [SecretId |-> secret_arn,
                           VersionStage |-> "AWSCURRENT",
                           MoveToVersionId |->
                               CHOOSE v \in Labelled(st[secret_arn], "AWSPENDING") : TRUE,
                           RemoveFromVersionId |->
                               CHOOSE v \in Labelled(st[secret_arn], "AWSCURRENT") : TRUE]
                updated == update_secret_version_stage(st, kwargs)
            IN Outcome(updated.exc, updated.store,
                       <<"describe_secret", "update_secret_version_stage">>, None)

finish_secret(st, secret_arn, fault) ==
    LET described == describe_secret(st, [SecretId |-> secret_arn])
        calls == <<"describe_secret">>
    IN IF fault = 1 THEN Outcome(Transient, st, calls, None)
       ELSE IF described.exc # NoExc THEN Outcome(described.exc, st, calls, None)
       ELSE IF "VersionIdsToStages" \notin DOMAIN described.response
       THEN Outcome(Exc("KeyError", <<"'VersionIdsToStages'">>), st, calls, None)
       ELSE LET kwargs == [SecretId |-> secret_arn,
                           VersionStage |-> "AWSCURRENT",
                           MoveToVersionId |-> MoveToVersionId(described.response)]
                updated == update_secret_version_stage(st, kwargs)
            IN IF updated.exc = ParamValidationError
               THEN Outcome(updated.exc, st, calls, None)
               ELSE IF fault = 2
               THEN Outcome(Transient, st,
                            <<"describe_secret", "update_secret_version_stage">>, None)
               ELSE Outcome(updated.exc, updated.store,
                            <<"describe_secret", "update_secret_version_stage">>, None)

----------------------------------------------------------------------------
(* The Lambda handler *)

Steps == {"createSecret", "setSecret", "testSecret", "finishSecret"}

\* What `except Exception` catches: every exception type the steps raise.
ExceptionTypes ==
    {"ValueError", "NameError", "KeyError", "ParamValidationError",
     "ResourceNotFoundException", "InvalidParameterException",
     "EndpointConnectionError"}

\* handler without the final else: an unrouted step falls through.
handler_fallthrough(st, event, fault, new_password, new_key, now) ==
    LET secret_arn == DictGet(event, "SecretId", None)
        step == DictGet(event, "Step", "createSecret")
        r == IF Falsy(secret_arn)
             THEN Outcome(Exc("ValueError", <<"SecretId not provided in event">>),
                          st, <<>>, None)
             ELSE IF step = "createSecret"
             THEN create_secret(st, secret_arn, fault, new_password, new_key, now)
             ELSE IF step = "setSecret" THEN set_secret(st, secret_arn)
             ELSE IF step = "testSecret" THEN test_secret(st, secret_arn, fault)
             ELSE IF step = "finishSecret" THEN finish_secret(st, secret_arn, fault)
             ELSE Outcome(NoExc, st, <<>>, None)
        caught == r.exc.type \in ExceptionTypes
    IN [store |-> r.store,
        exc |-> r.exc,
        calls |-> r.calls,
        generated |-> r.generated,
        outcome |-> IF r.exc = NoExc \/ caught THEN "returned" ELSE "raised",
        response |->
            IF r.exc = NoExc
            THEN [statusCode |-> 200,
                  body |-> [message |-> <<"Successfully completed ", step,
                                          " for secret rotation">>,
                            secretArn |-> secret_arn]]
            ELSE IF caught
            THEN [statusCode |-> 500,
                  body |-> [error |-> r.exc.msg,
                            secretArn |-> DictGet(event, "SecretId", "unknown")]]
            ELSE [statusCode |-> 0, body |-> [error |-> r.exc.msg]]]

handler(st, event, fault, new_password, new_key, now) ==
    LET secret_arn == DictGet(event, "SecretId", None)
        step == DictGet(event, "Step", "createSecret")
        r == IF Falsy(secret_arn)
             THEN Outcome(Exc("ValueError", <<"SecretId not provided in event">>),
                          st, <<>>, None)
             ELSE IF step = "createSecret"
             THEN create_secret(st, secret_arn, fault, new_password, new_key, now)
             ELSE IF step = "setSecret" THEN set_secret(st, secret_arn)
             ELSE IF step = "testSecret" THEN test_secret(st, secret_arn, fault)
             ELSE IF step = "finishSecret" THEN finish_secret(st, secret_arn, fault)
             ELSE Outcome(Exc("ValueError", <<"Unknown step: ", step>>), st, <<>>, None)
        caught == r.exc.type \in ExceptionTypes
    IN [store |-> r.store,
        exc |-> r.exc,
        calls |-> r.calls,
        generated |-> r.generated,
        outcome |-> IF r.exc = NoExc \/ caught THEN "returned" ELSE "raised",
        response |->
            IF r.exc = NoExc
            THEN [statusCode |-> 200,
                  body |-> [message |-> <<"Successfully completed ", step,
                                          " for secret rotation">>,
                            secretArn |-> secret_arn]]
            ELSE IF caught
            THEN [statusCode |-> 500,
                  body |-> [error |-> r.exc.msg,
                            secretArn |-> DictGet(event, "SecretId", "unknown")]]
            ELSE [statusCode |-> 0, body |-> [error |-> r.exc.msg]]]

----------------------------------------------------------------------------
(* Inputs *)

\* Secrets the store holds; "Z" names a secret it does not hold.
StoredSecrets == {"A", "B"}

\* event['SecretId'], when the key is present.
EventSecretIds == {"A", "B", "Z", ""}

\* event['Step'] values the handler does not route.
UnknownSteps == {"deleteSecret", "CreateSecret"}

\* Events: a dict that may lack either key.
Event(ids, steps) ==
    {[SecretId |-> i, Step |-> s] : i \in ids, s \in steps}

EventNoId(steps) == {[Step |-> s] : s \in steps}

EventNoStep(ids) == {[SecretId |-> i] : i \in ids}

\* Which store call of the invocation fails in transit (0: none).
Faults == {0, 1, 2}

\* secrets.choice over the alphabet, 32 times.
GenPasswords == {"aB3!aB3!aB3!aB3!aB3!aB3!aB3!aB3!", "Zy9#Zy9#Zy9#Zy9#Zy9#Zy9#Zy9#Zy9#"}

\* secrets.token_urlsafe(32): 43 URL-safe characters.
GenKeys == {"Qw-_Qw-_Qw-_Qw-_Qw-_Qw-_Qw-_Qw-_Qw-_Qw-_abc"}

\* datetime.utcnow().isoformat()
Timestamps == {"2025-01-01T00:00:00"}

\* Values the current version can hold.
CurrentValues ==
    {[password |-> "old"],
     [key |-> "oldkey"],
     [api_key |-> "ak-1"],
     [api_key |-> "ak-1", password |-> "old"],
     [password |-> "old", username |-> "svc"],
     [username |-> "svc"]}

\* Values a pending version can hold (generated or seeded by an operator).
PendingValues ==
    {[password |-> "1234567"],
     [password |-> "12345678"],
     [key |-> "short"],
     [key |-> "123456789012345"],
     [key |-> "1234567890123456"],
     [api_key |-> "ak-2", password |-> "short"],
     [api_key |-> "ak-2", key |-> "short"],
     [password |-> "12345678", key |-> "short"],
     [password |-> "aB3!aB3!aB3!aB3!aB3!aB3!aB3!aB3!", created_at |-> "2025-01-01T00:00:00"],
     [username |-> "svc"]}

PreviousValues == {[password |-> "older"]}

\* A secret with at most one version per staging label.
Secret(cur, pend, prev) ==
    LET ids == {VersionNames[1] : x \in cur} \cup {VersionNames[2] : x \in pend}
               \cup {VersionNames[3] : x \in prev}
    IN [v \in ids |->
          IF v = VersionNames[1]
          THEN [SecretString |-> json_dumps(CHOOSE x \in cur : TRUE),
                stages |-> {"AWSCURRENT"}]
          ELSE IF v = VersionNames[2]
          THEN [SecretString |-> json_dumps(CHOOSE x \in pend : TRUE),
                stages |-> {"AWSPENDING"}]
          ELSE [SecretString |-> json_dumps(CHOOSE x \in prev : TRUE),
                stages |-> {"AWSPREVIOUS"}]]

Optional(S) == {{}} \cup {{x} : x \in S}

SecretsA ==
    {Secret(c, p, q) : c \in Optional(CurrentValues), p \in Optional(PendingValues),
                       q \in Optional(PreviousValues)}

SecretsB ==
    {Secret({[password |-> "old"]}, {}, {}),
     Secret({[key |-> "oldkey"]}, {[key |-> "short"]}, {})}

NoInvocation ==
    [event |-> <<>>, exc |-> NoExc, calls |-> <<>>, generated |-> None,
     outcome |-> "none", response |-> [statusCode |-> 0]]

----------------------------------------------------------------------------
(* The state machine *)

\* No rotation cycle is being driven.
NoCycle ==
    [secret |-> None, pos |-> 0, tries |-> 0,
     before |-> [outcome |-> "none", statusCode |-> 0]]

\* No identity trigger has been invoked.
NoTrigger == [name |-> "none"]

Init ==
    /\ store \in {[s \in StoredSecrets |-> IF s = "A" THEN a ELSE b] :
                     a \in SecretsA, b \in SecretsB}
    /\ pre = store
    /\ last = NoInvocation
    /\ orch = NoCycle
    /\ trig = NoTrigger

\* One invocation of the Lambda.
Invoke(event, fault, new_password, new_key, now) ==
    \E r \in {handler(store, event, fault, new_password, new_key, now)} :
       /\ store' = r.store
       /\ pre' = store
       /\ last' = [event |-> event, exc |-> r.exc, calls |-> r.calls,
                   generated |-> r.generated, outcome |-> r.outcome,
                   response |-> r.response]

\* The store can take the version a createSecret may write.
HasRoom(event) ==
    IF DictGet(event, "SecretId", None) \in DOMAIN store
    THEN Cardinality(DOMAIN store[event.SecretId]) < MaxVersions
    ELSE TRUE

CreateSecret ==
    \E event \in Event(EventSecretIds, {"createSecret"}) \cup EventNoId({"createSecret"})
                 \cup EventNoStep(EventSecretIds),
       fault \in Faults, new_password \in GenPasswords, new_key \in GenKeys,
       now \in Timestamps :
        /\ HasRoom(event)
        /\ Invoke(event, fault, new_password, new_key, now)
        /\ UNCHANGED <<orch, trig>>

SetSecret ==
    \E event \in Event(EventSecretIds, {"setSecret"}) \cup EventNoId({"setSecret"}) :
        /\ event.Step = "setSecret"
        /\ Invoke(event, 0, None, None, None)
        /\ UNCHANGED <<orch, trig>>

TestSecret ==
    \E event \in Event(EventSecretIds, {"testSecret"}) \cup EventNoId({"testSecret"}),
       fault \in Faults :
        /\ event.Step = "testSecret"
        /\ Invoke(event, fault, None, None, None)
        /\ UNCHANGED <<orch, trig>>

FinishSecret ==
    \E event \in Event(EventSecretIds, {"finishSecret"}) \cup EventNoId({"finishSecret"}),
       fault \in Faults :
        /\ event.Step = "finishSecret"
        /\ Invoke(event, fault, None, None, None)
        /\ UNCHANGED <<orch, trig>>

UnknownStep ==
    \E event \in Event(EventSecretIds, UnknownSteps) \cup EventNoId(UnknownSteps) :
        /\ event.Step \notin Steps
        /\ Invoke(event, 0, None, None, None)
        /\ UNCHANGED <<orch, trig>>

Next ==
    \/ CreateSecret
    \/ SetSecret
    \/ TestSecret
    \/ FinishSecret
    \/ UnknownStep

Spec == Init /\ [][Next]_vars

----------------------------------------------------------------------------
(* Reading the last invocation *)

Invoked == last.outcome # "none"

LastId == DictGet(last.event, "SecretId", None)

LastStep == DictGet(last.event, "Step", "createSecret")

\* The handler routed the last invocation to this step of a stored secret.
Routed(step) ==
    /\ Invoked
    /\ LastStep = step
    /\ LastId \in DOMAIN pre

\* A store call of the last invocation failed in transit.
StoreFault == last.exc = Transient

Succeeded == last.outcome = "returned" /\ last.response.statusCode = 200

Failed == last.outcome = "raised" \/ last.response.statusCode = 500

\* The values of the versions of a secret that carry a label.
ValuesAt(st, sid, stage) ==
    {st[sid][v].SecretString : v \in Labelled(st[sid], stage)}

\* The Secret Type Policy's classification order: api_key > password > key.
Classify(d) ==
    IF "api_key" \in DOMAIN d THEN "api_key"
    ELSE IF "password" \in DOMAIN d THEN "password"
    ELSE IF "key" \in DOMAIN d THEN "key"
    ELSE "unknown"

\* The classified field is shorter than its minimum.
TooShort(d) ==
    \/ Classify(d) = "password" /\ Len(d["password"]) < MinPasswordLen
    \/ Classify(d) = "key" /\ Len(d["key"]) < MinKeyLen

----------------------------------------------------------------------------
(* C1 *)

\* C1: when some version holds AWSPENDING and finishSecret is invoked (and no
\* store call fails in transit), afterwards exactly one version is labelled
\* AWSCURRENT, its value is the value that was pending before the call, and
\* no version is labelled AWSPENDING.
C1_FinishPromotesPending ==
    (Routed("finishSecret") /\ ~StoreFault
        /\ Labelled(pre[LastId], "AWSPENDING") # {})
    => /\ Cardinality(Labelled(store[LastId], "AWSCURRENT")) = 1
       /\ ValuesAt(store, LastId, "AWSCURRENT") = ValuesAt(pre, LastId, "AWSPENDING")
       /\ Labelled(store[LastId], "AWSPENDING") = {}

----------------------------------------------------------------------------
(* C2 *)

\* C2: in every reachable state every secret has at most one version
\* labelled AWSCURRENT and at most one labelled AWSPENDING.
C2_UniqueLabels ==
    \A sid \in DOMAIN store :
        /\ Cardinality(Labelled(store[sid], "AWSCURRENT")) <= 1
        /\ Cardinality(Labelled(store[sid], "AWSPENDING")) <= 1

\* finishSecret has run against a secret that holds a current and a pending
\* version.
C2_Witness ==
    /\ Routed("finishSecret") /\ ~StoreFault
    /\ Cardinality(Labelled(pre[LastId], "AWSCURRENT")) = 1
    /\ Cardinality(Labelled(pre[LastId], "AWSPENDING")) = 1
    /\ Cardinality(Labelled(store[LastId], "AWSCURRENT")) = 1

----------------------------------------------------------------------------
(* C3 *)

\* C3: createSecret invoked while a version is already pending (the current
\* version readable, no store call failing in transit) returns success,
\* generates no value and writes no version: the store is as before, with
\* exactly one pending version.
C3_CreateIdempotent ==
    (Routed("createSecret") /\ ~StoreFault
        /\ Labelled(pre[LastId], "AWSCURRENT") # {}
        /\ Labelled(pre[LastId], "AWSPENDING") # {})
    => /\ Succeeded
       /\ last.generated = None
       /\ store = pre
       /\ Cardinality(Labelled(store[LastId], "AWSPENDING")) = 1

----------------------------------------------------------------------------
(* C4 *)

\* C4: testSecret on a pending value fails exactly when the field chosen by
\* the order api_key > password > key > unknown is shorter than its minimum
\* (password < 8, key < 16), and succeeds otherwise.
C4_TestFollowsClassification ==
    (Routed("testSecret") /\ ~StoreFault
        /\ Labelled(pre[LastId], "AWSPENDING") # {})
    => \A text \in ValuesAt(pre, LastId, "AWSPENDING") :
          /\ Failed <=> TooShort(json_loads(text))
          /\ Succeeded <=> ~TooShort(json_loads(text))

----------------------------------------------------------------------------
(* C5 *)

\* C5: createSecret on a secret whose only version is current with a
\* password field and no api_key field succeeds and leaves a pending version
\* holding a generated 32-character password and a created_at stamp.
C5_CreateStagesPassword ==
    (Routed("createSecret") /\ ~StoreFault
        /\ Cardinality(DOMAIN pre[LastId]) = 1
        /\ \E text \in ValuesAt(pre, LastId, "AWSCURRENT") :
              Classify(json_loads(text)) = "password")
    => /\ Succeeded
       /\ Cardinality(Labelled(store[LastId], "AWSPENDING")) = 1
       /\ \A text \in ValuesAt(store, LastId, "AWSPENDING") :
              /\ "password" \in DOMAIN json_loads(text)
              /\ "created_at" \in DOMAIN json_loads(text)
              /\ Len(json_loads(text)["password"]) = PasswordLen
              /\ json_loads(text)["password"] = last.generated

----------------------------------------------------------------------------
(* C6 *)

\* The current value of the secret the last invocation named is one
\* createSecret does not generate for: it has an api_key field, or none of
\* api_key, password, key.
ManualOnly ==
    /\ Labelled(pre[LastId], "AWSCURRENT") # {}
    /\ \A text \in ValuesAt(pre, LastId, "AWSCURRENT") :
          Classify(json_loads(text)) \in {"api_key", "unknown"}

\* C6: createSecret on a secret whose current value has an api_key field, or
\* none of api_key, password, key, returns success (when the read of the
\* current value does not fail in transit), generates nothing and leaves
\* every version and label of the store as it was.
C6_ManualOnlyIsNoOp ==
    (Routed("createSecret") /\ ~StoreFault /\ ManualOnly)
    => /\ Succeeded
       /\ last.generated = None
       /\ last.calls = <<"get_secret_value">>
       /\ store = pre

\* createSecret has returned success for a current value that has both an
\* api_key and a password field, with no pending version before or after.
C6_Witness ==
    /\ Routed("createSecret") /\ ManualOnly /\ Succeeded
    /\ \E text \in ValuesAt(pre, LastId, "AWSCURRENT") :
          {"api_key", "password"} \subseteq DOMAIN json_loads(text)
    /\ Labelled(pre[LastId], "AWSPENDING") = {}
    /\ Labelled(store[LastId], "AWSPENDING") = {}

----------------------------------------------------------------------------
(* C7 *)

\* C7: after setSecret or testSecret, succeeded or failed, every version's
\* value and every staging label is what it was before the call.
C7_SetAndTestLeaveStore ==
    (Invoked /\ LastStep \in {"setSecret", "testSecret"}) => store = pre

\* testSecret has rejected a pending key of length 5 and the current
\* version is unchanged.
C7_Witness ==
    /\ Routed("testSecret")
    /\ last.response.statusCode = 500
    /\ last.exc = Exc("ValueError", <<"Key too short">>)
    /\ ValuesAt(pre, LastId, "AWSPENDING") = {json_dumps([key |-> "short"])}
    /\ Labelled(pre[LastId], "AWSCURRENT") # {}
    /\ ValuesAt(store, LastId, "AWSCURRENT") = ValuesAt(pre, LastId, "AWSCURRENT")

----------------------------------------------------------------------------
(* C8 *)

MissingId == Invoked /\ Falsy(LastId)

UnroutedStep == Invoked /\ LastStep \notin Steps

\* The last invocation made no call to the store and left it as it was.
NoStoreAccess == last.calls = <<>> /\ store = pre

\* C8 as stated: every invocation with a step other than the four fails with
\* the unknown-step error, and every invocation without a secret identifier
\* fails, both without a store call.
C8_UnknownStepError ==
    /\ UnroutedStep =>
          /\ Failed
          /\ last.response.body.error = <<"Unknown step: ", LastStep>>
          /\ NoStoreAccess
    /\ MissingId => Failed /\ NoStoreAccess

\* C8, amended: an invocation that carries a secret identifier and a step
\* other than the four fails with the unknown-step error; an invocation
\* without a secret identifier fails with the missing-identifier error
\* whatever its step; both make no store call.
C8_RejectedBeforeStore ==
    /\ (UnroutedStep /\ ~MissingId) =>
          /\ Failed
          /\ last.response.body.error = <<"Unknown step: ", LastStep>>
          /\ NoStoreAccess
    /\ MissingId =>
          /\ Failed
          /\ last.response.body.error = <<"SecretId not provided in event">>
          /\ NoStoreAccess

\* An unknown step for a stored secret has been rejected.
C8_Witness ==
    /\ UnroutedStep /\ LastId \in DOMAIN store
    /\ last.response.statusCode = 500
    /\ last.response.body.error = <<"Unknown step: ", LastStep>>
    /\ last.calls = <<>>

----------------------------------------------------------------------------
(* C10 *)

\* A step function raised during the last invocation.
CoreFailure == Invoked /\ ~MissingId /\ LastStep \in Steps /\ last.exc # NoExc

\* C10: when a step fails inside the rotation core the failure is raised to
\* the caller: the invocation never ends as a normal completion of the
\* handler.
C10_FailureIsRaised ==
    CoreFailure => last.outcome = "raised"

----------------------------------------------------------------------------
(* C11 *)

\* C11: the version holding AWSPREVIOUS changes only in a finishSecret step
\* that relabels the pending version AWSCURRENT, and then AWSPREVIOUS is held
\* by exactly the version that held AWSCURRENT before the step; createSecret,
\* setSecret and testSecret never assign or move it.
C11_PreviousOnlyOnPromotion ==
    \A sid \in DOMAIN pre :
        Labelled(store[sid], "AWSPREVIOUS") # Labelled(pre[sid], "AWSPREVIOUS")
        => /\ Routed("finishSecret") /\ LastId = sid
           /\ Labelled(pre[sid], "AWSPENDING") # {}
           /\ Labelled(store[sid], "AWSCURRENT") = Labelled(pre[sid], "AWSPENDING")
           /\ Labelled(store[sid], "AWSPREVIOUS") = Labelled(pre[sid], "AWSCURRENT")

\* createSecret has generated a password for a secret that has a previous
\* version, and the previous version is the one it was.
C11_Witness ==
    /\ Routed("createSecret")
    /\ last.generated # None
    /\ Labelled(pre[LastId], "AWSCURRENT") # {}
    /\ Labelled(pre[LastId], "AWSPREVIOUS") # {}
    /\ Labelled(store[LastId], "AWSPREVIOUS") = Labelled(pre[LastId], "AWSPREVIOUS")

----------------------------------------------------------------------------
(* C12 *)

\* C12: a step invoked for one secret leaves every other secret's versions,
\* values and labels as they were, and what it does to its own secret and
\* answers is the same whatever the other secret holds.
C12_NoCrossTalk ==
    /\ Invoked => \A sid \in (DOMAIN store) \ {LastId} : store[sid] = pre[sid]
    /\ \A sid \in StoredSecrets, step \in Steps, fault \in Faults :
         \A other \in StoredSecrets \ {sid}, b \in SecretsB :
            \A pw \in GenPasswords, k \in GenKeys, now \in Timestamps :
                LET e == [SecretId |-> sid, Step |-> step]
                    here == handler(store, e, fault, pw, k, now)
                    alone == handler([store EXCEPT ![other] = b], e, fault, pw, k, now)
                IN /\ here.store[sid] = alone.store[sid]
                   /\ here.response = alone.response
                   /\ alone.store[other] = b

\* testSecret has rejected the pending value of secret A while secret B
\* holds a current and a pending version, and B is as it was.
C12_Witness ==
    /\ Routed("testSecret") /\ LastId = "A"
    /\ last.exc.type = "ValueError"
    /\ Labelled(store["B"], "AWSPENDING") # {}
    /\ store["B"] = pre["B"]

----------------------------------------------------------------------------
(* C15 *)

\* C15: every version that existed before a step still exists after it with
\* the value it was written with.
C15_ValuesImmutable ==
    \A sid \in DOMAIN pre :
        \A v \in DOMAIN pre[sid] :
            /\ v \in DOMAIN store[sid]
            /\ store[sid][v].SecretString = pre[sid][v].SecretString

\* createSecret has generated a password for a secret and the current
\* version still holds the value it held.
C15_Witness ==
    /\ Routed("createSecret")
    /\ last.generated # None
    /\ Labelled(pre[LastId], "AWSCURRENT") # {}
    /\ ValuesAt(store, LastId, "AWSCURRENT") = ValuesAt(pre, LastId, "AWSCURRENT")

----------------------------------------------------------------------------
(* The rotation scheduler: one cycle of one secret *)

\* Times the scheduler issues one step (the first try and its retries).
MaxTries == 2

CycleSteps == <<"createSecret", "setSecret", "testSecret", "finishSecret">>

\* How the previous invocation ended, as the scheduler saw it.
Seen == [outcome |-> last.outcome, statusCode |-> last.response.statusCode]

CycleInit ==
    /\ store \in {[s \in StoredSecrets |-> IF s = "A" THEN a ELSE b] :
                     a \in SecretsA, b \in SecretsB}
    /\ pre = store
    /\ last = NoInvocation
    /\ orch \in {[secret |-> s, pos |-> 0, tries |-> 0, before |-> Seen] :
                    s \in StoredSecrets}
    /\ trig = NoTrigger

\* The scheduler issues the next step of the cycle; it takes the step before
\* as passed when its invocation completed without raising.
OrchestratorAdvance ==
    \E fault \in Faults, new_password \in GenPasswords, new_key \in GenKeys,
       now \in Timestamps :
        /\ orch.pos < Len(CycleSteps)
        /\ orch.pos > 0 => last.outcome = "returned"
        /\ HasRoom([SecretId |-> orch.secret])
        /\ Invoke([SecretId |-> orch.secret, Step |-> CycleSteps[orch.pos + 1]],
                  fault, new_password, new_key, now)
        /\ orch' = [orch EXCEPT !.pos = @ + 1, !.tries = 1, !.before = Seen]
        /\ UNCHANGED trig

\* The scheduler issues the step it issued last once more.
OrchestratorRetry ==
    \E fault \in Faults, new_password \in GenPasswords, new_key \in GenKeys,
       now \in Timestamps :
        /\ orch.pos > 0
        /\ orch.tries < MaxTries
        /\ HasRoom([SecretId |-> orch.secret])
        /\ Invoke([SecretId |-> orch.secret, Step |-> CycleSteps[orch.pos]],
                  fault, new_password, new_key, now)
        /\ orch' = [orch EXCEPT !.tries = @ + 1, !.before = Seen]
        /\ UNCHANGED trig

CycleNext ==
    \/ OrchestratorAdvance
    \/ OrchestratorRetry

CycleSpec == CycleInit /\ [][CycleNext]_vars

----------------------------------------------------------------------------
(* C16 *)

\* The scheduler has issued finishSecret again after a finishSecret
\* invocation that completed without raising.
FinishRetried ==
    /\ orch.pos = Len(CycleSteps)
    /\ orch.tries > 1
    /\ orch.before.outcome = "returned"
    /\ ~StoreFault

\* C16: when finishSecret is invoked again after a finishSecret that
\* completed, AWSCURRENT and AWSPREVIOUS are on the same versions after the
\* retry as before it and the retry is not answered with an error.
C16_FinishRetrySafe ==
    FinishRetried
    => /\ Labelled(store[LastId], "AWSCURRENT") = Labelled(pre[LastId], "AWSCURRENT")
       /\ Labelled(store[LastId], "AWSPREVIOUS") = Labelled(pre[LastId], "AWSPREVIOUS")
       /\ ~Failed

----------------------------------------------------------------------------
(* C17 *)

\* Versions the last step relabelled from AWSPENDING to AWSCURRENT.
Promoted(sid) ==
    Labelled(store[sid], "AWSCURRENT") \cap Labelled(pre[sid], "AWSPENDING")

MinAge == 13

\* json.dumps of the default preferences literal of pre_signup (lines 56-61)
default_preferences ==
    "{\"personas_enabled\": [\"courage\", \"comfort\", \"creative\", \"compass\"], \"session_reminders\": true, \"data_retention_days\": 30, \"privacy_mode\": \"standard\"}"

\* datetime.strptime(text, '%Y-%m-%d').date() on the texts that parse; any
\* other text raises ValueError.
ParsedDates ==
    ("2012-06-15" :> <<2012, 6, 15>>) @@
    ("2015-01-01" :> <<2015, 1, 1>>) @@
    ("2000-12-31" :> <<2000, 12, 31>>)

\* (a1, a2) < (b1, b2) on Python tuples
TupleLess(a, b) == IF a[1] = b[1] THEN a[2] < b[2] ELSE a[1] < b[1]

validate_age(birthdate, today) ==
    IF birthdate \notin DOMAIN ParsedDates
      THEN FALSE
      ELSE LET birth_date == ParsedDates[birthdate]
               age == today[1] - birth_date[1]
                        - (IF TupleLess(<<today[2], today[3]>>,
                                        <<birth_date[2], birth_date[3]>>)
                             THEN 1 ELSE 0)
           IN  age >= MinAge

\* What one trigger invocation did: whether it returned or raised, the
\* exception raised (or swallowed and logged), the event object as the call
\* left it, and the table writes that went through.
TriggerResult(outcome, exc, event, writes) ==
    [outcome |-> outcome, exc |-> exc, event |-> event, writes |-> writes]

\* event['response']['userAttributes'] = event['request']['userAttributes']:
\* the response entry is bound to the very dict object the request holds.
\* heap maps a dict object to its contents, ref names the object bound.
bind_response_attributes(heap) == [ref |-> "request", heap |-> heap]

\* obj[k] = v unless k is already a key of obj
SetDefault(heap, ref, k, v) ==
    IF k \in DOMAIN heap[ref] THEN heap
    ELSE [heap EXCEPT ![ref] = DictSet(@, k, v)]

pre_signup(event, today) ==
    LET user_attributes == DictGet(event.request, "userAttributes", <<>>)
        birthdate == DictGet(user_attributes, "birthdate", None)
    IN  IF ~Falsy(birthdate) /\ ~validate_age(birthdate, today)
          THEN TriggerResult("raised",
                   Exc("ValueError", "Users must be 13 years or older to register"),
                   event, <<>>)
        ELSE IF "response" \notin DOMAIN event
          THEN TriggerResult("raised", Exc("KeyError", "response"), event, <<>>)
        ELSE
          LET response ==
                  IF event.triggerSource = "PreSignUp_ExternalProvider"
                    THEN DictSet(DictSet(event.response, "autoConfirmUser", TRUE),
                                 "autoVerifyEmail", TRUE)
                    ELSE event.response
              bound == bind_response_attributes([request |-> event.request.userAttributes])
              h1 == SetDefault(bound.heap, bound.ref, "custom:consent_version", "1.0")
              h2 == SetDefault(h1, bound.ref, "custom:user_preferences", default_preferences)
          IN  TriggerResult("returned", NoExc,
                  [event EXCEPT !.request.userAttributes = h2["request"],
                                !.response = DictSet(response, "userAttributes", h2[bound.ref])],
                  <<>>)

validate_user_status(user_id, user_attributes) ==
    LET email == DictGet(user_attributes, "email", "")
    IN  ~Falsy(email)

pre_authentication(event) ==
    LET user_attributes == DictGet(event.request, "userAttributes", <<>>)
    IN  IF ~validate_user_status(event.userName, user_attributes)
          THEN TriggerResult("raised",
                   Exc("ValueError", "Account access has been restricted. Please contact support."),
                   event, <<>>)
          ELSE TriggerResult("returned", NoExc, event, <<>>)

\* The tables of the profile store the triggers write to.
Tables == {"user-profiles", "user-cache", "session-metrics"}

\* One table call by a helper that catches and logs its own failure: the
\* write goes through unless the table is down.
TableWrite(down, table, op, user_id) ==
    IF table \in down THEN <<>>
    ELSE <<[table |-> table, op |-> op, user_id |-> user_id]>>

Swallowed(down, used) ==
    IF down \cap used = {} THEN NoExc
    ELSE Exc("ClientError", "table unavailable")

initialize_user_profile(down, user_id) ==
    TableWrite(down, "user-profiles", "put_item", user_id)

post_confirmation(event, down) ==
    TriggerResult("returned", Swallowed(down, {"user-profiles"}), event,
                  initialize_user_profile(down, event.userName))

update_user_login_info(down, user_id) ==
    TableWrite(down, "user-profiles", "update_item", user_id)

cache_user_context(down, user_id) ==
    TableWrite(down, "user-cache", "put_item", user_id)

update_session_metrics(down, user_id) ==
    TableWrite(down, "session-metrics", "update_item", user_id)

post_authentication(event, down) ==
    TriggerResult("returned", Swallowed(down, Tables), event,
                  update_user_login_info(down, event.userName)
                    \o cache_user_context(down, event.userName)
                    \o update_session_metrics(down, event.userName))

\* The body shared by the six customizers of custom_message.py: read the
\* greeting name and the code, then set the subject and the message.  The
\* f-string is kept as its template name and the values interpolated.
customize_message_subject_first(event, subject, template, greeting) ==
    IF "response" \notin DOMAIN event
      THEN [exc |-> Exc("KeyError", "response"), event |-> event]
    ELSE IF "codeParameter" \notin DOMAIN event.request
      THEN [exc |-> Exc("KeyError", "codeParameter"),
            event |-> [event EXCEPT !.response = DictSet(@, "emailSubject", subject)]]
    ELSE [exc |-> NoExc,
          event |-> [event EXCEPT !.response =
                        DictSet(DictSet(@, "emailSubject", subject), "emailMessage",
                                <<template>> \o greeting \o <<event.request.codeParameter>>)]]

customize_message(event, subject, template, greeting) ==
    IF "codeParameter" \notin DOMAIN event.request
      THEN [exc |-> Exc("KeyError", "codeParameter"), event |-> event]
    ELSE IF "response" \notin DOMAIN event
      THEN [exc |-> Exc("KeyError", "response"), event |-> event]
    ELSE [exc |-> NoExc,
          event |-> [event EXCEPT !.response =
                        DictSet(DictSet(@, "emailSubject", subject), "emailMessage",
                                <<template>> \o greeting \o <<event.request.codeParameter>>)]]

given_name(user_attributes) == <<DictGet(user_attributes, "given_name", "Friend")>>

customize_signup_message(event, user_attributes) ==
    customize_message(event, "Welcome to InnerWorld - Verify Your Email",
                      "signup", given_name(user_attributes))

customize_resend_code_message(event, user_attributes) ==
    customize_message(event, "InnerWorld - Your New Verification Code",
                      "resend_code", given_name(user_attributes))

customize_forgot_password_message(event, user_attributes) ==
    customize_message(event, "InnerWorld - Reset Your Password",
                      "forgot_password", given_name(user_attributes))

customize_update_attribute_message(event, user_attributes) ==
    customize_message(event, "InnerWorld - Verify Your Email Change",
                      "update_attribute", <<>>)

customize_verify_attribute_message(event, user_attributes) ==
    customize_message(event, "InnerWorld - Verify Your Information",
                      "verify_attribute", <<>>)

customize_authentication_message(event, user_attributes) ==
    customize_message(event, "InnerWorld - Your Login Code",
                      "authentication", <<>>)

custom_message(event) ==
    LET user_attributes == DictGet(event.request, "userAttributes", <<>>)
        trigger_source == event.triggerSource
        done ==
            CASE trigger_source = "CustomMessage_SignUp" ->
                     customize_signup_message(event, user_attributes)
              [] trigger_source = "CustomMessage_ResendCode" ->
                     customize_resend_code_message(event, user_attributes)
              [] trigger_source = "CustomMessage_ForgotPassword" ->
                     customize_forgot_password_message(event, user_attributes)
              [] trigger_source = "CustomMessage_UpdateUserAttribute" ->
                     customize_update_attribute_message(event, user_attributes)
              [] trigger_source = "CustomMessage_VerifyUserAttribute" ->
                     customize_verify_attribute_message(event, user_attributes)
              [] trigger_source = "CustomMessage_Authentication" ->
                     customize_authentication_message(event, user_attributes)
              [] OTHER -> [exc |-> NoExc, event |-> event]
    IN  TriggerResult("returned", done.exc, done.event, <<>>)

\* ---- the events the directory sends ----

UserNames == {"u1"}

UserAttributes ==
    {[email |-> "a@b.c"],
     [email |-> "a@b.c", given_name |-> "Sam"],
     [email |-> "a@b.c", birthdate |-> "2012-06-15"],
     [email |-> "a@b.c", birthdate |-> "2015-01-01"],
     [email |-> "a@b.c", birthdate |-> "2000-12-31"],
     [email |-> "a@b.c", birthdate |-> "not-a-date"],
     [email |-> "a@b.c", birthdate |-> "2012-02-30"],
     [email |-> "", birthdate |-> "2000-12-31"],
     [given_name |-> "Sam"],
     ("email" :> "a@b.c") @@ ("custom:consent_version" :> "2.0")
        @@ ("custom:user_preferences" :> "{}")}

Todays == {<<2025, 6, 14>>, <<2025, 6, 15>>}

Requests(with_code) ==
    {[userAttributes |-> a] : a \in UserAttributes}
      \cup (IF with_code
              THEN {[userAttributes |-> a, codeParameter |-> "{####}"] :
                      a \in UserAttributes}
              ELSE {})

TriggerEvents(sources, with_code) ==
    {[userName |-> u, triggerSource |-> t, request |-> q, response |-> <<>>] :
        u \in UserNames, t \in sources, q \in Requests(with_code)}
      \cup {[userName |-> u, triggerSource |-> t, request |-> q] :
              u \in UserNames, t \in sources, q \in Requests(with_code)}

MessageSources ==
    {"CustomMessage_SignUp", "CustomMessage_ResendCode",
     "CustomMessage_ForgotPassword", "CustomMessage_UpdateUserAttribute",
     "CustomMessage_VerifyUserAttribute", "CustomMessage_Authentication",
     "CustomMessage_AdminCreateUser"}

\* ---- the triggers as a state machine: trig holds the last invocation ----

Fired(name, event, today, r) ==
    trig' = [name |-> name, received |-> event, today |-> today,
             outcome |-> r.outcome, exc |-> r.exc, event |-> r.event,
             writes |-> r.writes]

TriggerInit ==
    /\ store = [sid \in StoredSecrets |-> Secret({[password |-> "old-password"]}, {}, {})]
    /\ pre = store
    /\ last = NoInvocation
    /\ orch = NoCycle
    /\ trig = NoTrigger

PreSignup ==
    \E event \in TriggerEvents({"PreSignUp_SignUp", "PreSignUp_ExternalProvider"}, FALSE),
       today \in Todays :
        /\ event.triggerSource \in {"PreSignUp_SignUp", "PreSignUp_ExternalProvider"}
        /\ Fired("pre_signup", event, today, pre_signup(event, today))
        /\ UNCHANGED <<store, pre, last, orch>>

PreAuthentication ==
    \E event \in TriggerEvents({"PreAuthentication_Authentication"}, FALSE) :
        /\ event.triggerSource = "PreAuthentication_Authentication"
        /\ Fired("pre_authentication", event, <<>>, pre_authentication(event))
        /\ UNCHANGED <<store, pre, last, orch>>

PostConfirmation ==
    \E event \in TriggerEvents({"PostConfirmation_ConfirmSignUp"}, FALSE),
       down \in SUBSET Tables :
        /\ event.triggerSource = "PostConfirmation_ConfirmSignUp"
        /\ Fired("post_confirmation", event, <<>>, post_confirmation(event, down))
        /\ UNCHANGED <<store, pre, last, orch>>

PostAuthentication ==
    \E event \in TriggerEvents({"PostAuthentication_Authentication"}, FALSE),
       down \in SUBSET Tables :
        /\ event.triggerSource = "PostAuthentication_Authentication"
        /\ Fired("post_authentication", event, <<>>, post_authentication(event, down))
        /\ UNCHANGED <<store, pre, last, orch>>

CustomMessage ==
    \E event \in TriggerEvents(MessageSources, TRUE) :
        /\ event.triggerSource \in MessageSources
        /\ Fired("custom_message", event, <<>>, custom_message(event))
        /\ UNCHANGED <<store, pre, last, orch>>

TriggerNext ==
    \/ PreSignup
    \/ PreAuthentication
    \/ PostConfirmation
    \/ PostAuthentication
    \/ CustomMessage

TriggerSpec == TriggerInit /\ [][TriggerNext]_vars

\* ---- claims about the triggers (checked under TriggerSpec) ----

Triggered == trig.name # "none"

ReceivedAttributes == trig.received.request.userAttributes

\* A date as one number, year first, so that dates compare as numbers.
DayNumber(d) == d[1] * 10000 + d[2] * 100 + d[3]

\* The birthdate sent is not a date, or lies less than MinAge years before
\* today.
BirthdateRejected ==
    /\ "birthdate" \in DOMAIN ReceivedAttributes
    /\ ReceivedAttributes.birthdate # ""
    /\ IF ReceivedAttributes.birthdate \in DOMAIN ParsedDates
         THEN DayNumber(trig.today)
                - DayNumber(ParsedDates[ReceivedAttributes.birthdate])
                < MinAge * 10000
         ELSE TRUE

NotInGoodStanding ==
    IF "email" \in DOMAIN ReceivedAttributes
      THEN ReceivedAttributes.email = ""
      ELSE TRUE

\* C13: post-confirmation, post-authentication and custom-message never
\* raise, and when an operation inside them fails they return the event they
\* received, unmodified; pre-signup raises on a birthdate that is not a date
\* or is under 13, and pre-authentication raises on an account that is not
\* in good standing.
C13_LifecycleNeverBlocked ==
    /\ (Triggered /\ trig.name \in {"post_confirmation", "post_authentication",
                                   "custom_message"})
         => /\ trig.outcome = "returned"
            /\ (trig.exc.type # "None" => trig.event = trig.received)
    /\ (Triggered /\ trig.name = "pre_signup" /\ BirthdateRejected)
         => /\ trig.outcome = "raised"
            /\ trig.exc.type = "ValueError"
    /\ (Triggered /\ trig.name = "pre_authentication" /\ NotInGoodStanding)
         => /\ trig.outcome = "raised"
            /\ trig.exc.type = "ValueError"

\* A message event with a response to fill and no code to put in it: the
\* customizer failed and the handler answered all the same.
C13_Witness ==
    /\ Triggered
    /\ trig.name = "custom_message"
    /\ trig.received.triggerSource = "CustomMessage_SignUp"
    /\ "response" \in DOMAIN trig.received
    /\ trig.exc.type = "KeyError"
    /\ trig.outcome = "returned"

\* C14: the event a trigger returns has the userName, the triggerSource and
\* the request's userAttributes of the event it received; only response
\* fields differ.
C14_OnlyResponseChanges ==
    (Triggered /\ trig.outcome = "returned")
      => /\ trig.event.userName = trig.received.userName
         /\ trig.event.triggerSource = trig.received.triggerSource
         /\ trig.event.request.userAttributes = ReceivedAttributes
====
